---- MODULE Spec2Model ----
(***************************************************************************)
(* Model of the pixelflut sprite client (src/src/main.rs): three input     *)
(* sources (keyboard, TCP remote control, HTTP remote control) send        *)
(* Direction events over one mpsc channel to the render loop of main,      *)
(* which latches the direction, moves the sprite and streams frames to     *)
(* the canvas connection.                                                  *)
(***************************************************************************)
EXTENDS Integers, Sequences, FiniteSets, TLC

VARIABLES
    overflow_checks,  \* build profile: TRUE = arithmetic overflow panics (debug)
    args,             \* parsed command line: <<x, y>> start coordinates
    pcMain,           \* position of the main thread
    canvas_size,      \* <<width, height>> returned by get_canvas_size
    position,         \* [x, y] of the sprite origin (bounds = canvas_size)
    direction,        \* latched Direction of the render loop
    nwrites,          \* frames written in the current outer iteration
    ticks,            \* outer iterations started (bounded by MaxTicks)
    queue,            \* contents of the mpsc channel, oldest first
    nsent,            \* successful sends so far (bounded by MaxSends)
    kbd,              \* state of the keyboard thread
    sock,             \* state of the TCP listener thread
    connection_pool,  \* state of every spawned connection handler, in accept order
    web,              \* state of the HTTP thread
    last,             \* the step taken last: who took it, on which input, with which outcome
    elapsed_time,     \* milliseconds since start_time, as sampled for the last frame write
    frame_idx,        \* index into current_frames used by the last frame write
    operands,         \* the Coordinates a, b, c given to Coordinates::add on its own
    sums              \* the sums of the operands computed so far

vars == <<overflow_checks, args, pcMain, canvas_size, position, direction, nwrites,
          ticks, queue, nsent, kbd, sock, connection_pool, web, last,
          elapsed_time, frame_idx, operands, sums>>

frameVars == <<elapsed_time, frame_idx>>
addVars == <<operands, sums>>

mainVars == <<pcMain, canvas_size, position, direction, nwrites, ticks>>
threadVars == <<kbd, sock, connection_pool, web>>

-----------------------------------------------------------------------------
(* Bounds of the model *)

MaxTicks == 2
MaxSends == 2
MaxConns == 2
MaxInputConns == 1
MaxInputSends == 1
MaxInputTicks == 1
MaxDrawTicks == 1
MaxElapsed == 400
NumFrames == 2

(* Program constants *)

U16 == 65536
WritesPerTick == 10
frame_duration == 200

Directions == {"Right", "Left", "Up", "Down"}
InitialDirection == "Right"

-----------------------------------------------------------------------------
(* Text helpers: strings are sequences of one-character strings *)

Whitespace == {" ", "\n", "\r", "\t"}

DigitChars == {"0", "1", "2", "3", "4", "5", "6", "7", "8", "9"}

DigitValue(c) ==
    CASE c = "0" -> 0 [] c = "1" -> 1 [] c = "2" -> 2 [] c = "3" -> 3
      [] c = "4" -> 4 [] c = "5" -> 5 [] c = "6" -> 6 [] c = "7" -> 7
      [] c = "8" -> 8 [] c = "9" -> 9

RECURSIVE TrimStart(_)
TrimStart(s) ==
    IF s # <<>> /\ Head(s) \in Whitespace THEN TrimStart(Tail(s)) ELSE s

RECURSIVE TrimEnd(_)
TrimEnd(s) ==
    IF s # <<>> /\ s[Len(s)] \in Whitespace
    THEN TrimEnd(SubSeq(s, 1, Len(s) - 1))
    ELSE s

\* str::trim
Trim(s) == TrimEnd(TrimStart(s))

\* the first whitespace-free run of s (s starts with a non-whitespace character)
RECURSIVE TakeToken(_)
TakeToken(s) ==
    IF s = <<>> \/ Head(s) \in Whitespace THEN <<>>
    ELSE <<Head(s)>> \o TakeToken(Tail(s))

\* str::split_whitespace, collected: the sequence of non-empty tokens of s
RECURSIVE SplitWhitespace(_)
SplitWhitespace(s) ==
    LET t == TrimStart(s) IN
    IF t = <<>> THEN <<>>
    ELSE LET tok == TakeToken(t) IN
         <<tok>> \o SplitWhitespace(SubSeq(t, Len(tok) + 1, Len(t)))

None == [some |-> FALSE, val |-> 0]
Some(v) == [some |-> TRUE, val |-> v]

\* accumulate decimal digits with the overflow check of u16
RECURSIVE ParseDigits(_, _)
ParseDigits(s, acc) ==
    IF s = <<>> THEN Some(acc)
    ELSE IF Head(s) \notin DigitChars THEN None
    ELSE LET v == acc * 10 + DigitValue(Head(s)) IN
         IF v >= U16 THEN None ELSE ParseDigits(Tail(s), v)

\* str::parse::<u16>().ok(): an optional leading "+", then at least one digit
ParseU16(tok) ==
    IF tok = <<>> THEN None
    ELSE IF Head(tok) = "+"
         THEN (IF Tail(tok) = <<>> THEN None ELSE ParseDigits(Tail(tok), 0))
         ELSE ParseDigits(tok, 0)

-----------------------------------------------------------------------------
(* get_canvas_size: the outcome for one response line read from the server *)

IoError == <<"io error">>

\* a parse that takes width and height from the first two tokens
ParseSizeResponseNoEcho(buffer) ==
    LET parts == SplitWhitespace(buffer) IN
    IF Len(parts) >= 2 /\ ParseU16(parts[1]).some /\ ParseU16(parts[2]).some
    THEN [ok |-> TRUE, size |-> <<ParseU16(parts[1]).val, ParseU16(parts[2]).val>>,
          panic |-> ""]
    ELSE [ok |-> FALSE, size |-> <<0, 0>>, panic |-> "Failed parsing of size response"]

\* the parse of the response line: skip the echo, then width and height
ParseSizeResponse(buffer) ==
    LET parts == SplitWhitespace(buffer) IN
    IF Len(parts) < 1
    THEN [ok |-> FALSE, size |-> <<0, 0>>,
          panic |-> "Failed parsing of size response: Response is empty"]
    ELSE LET width == IF Len(parts) >= 2 THEN ParseU16(parts[2]) ELSE None IN
         IF ~width.some
         THEN [ok |-> FALSE, size |-> <<0, 0>>, panic |-> "Failed parsing of size response"]
         ELSE LET height == IF Len(parts) >= 3 THEN ParseU16(parts[3]) ELSE None IN
              IF ~height.some
              THEN [ok |-> FALSE, size |-> <<0, 0>>,
                    panic |-> "Failed parsing of size response"]
              ELSE [ok |-> TRUE, size |-> <<width.val, height.val>>, panic |-> ""]

get_canvas_size(read) ==
    IF read = IoError
    THEN [ok |-> FALSE, size |-> <<0, 0>>,
          panic |-> "Failed to read the server response from the stream"]
    ELSE ParseSizeResponse(read)

-----------------------------------------------------------------------------
(* u16 arithmetic and Coordinates *)

Ok(v) == [ok |-> TRUE, val |-> v]
Panic == [ok |-> FALSE, val |-> 0]

\* a + b in u16: an overflow panics with overflow checks and wraps without
AddU16(a, b, checks) ==
    IF a + b >= U16 THEN (IF checks THEN Panic ELSE Ok((a + b) % U16)) ELSE Ok(a + b)

\* a - b in u16
SubU16(a, b, checks) ==
    IF a - b < 0 THEN (IF checks THEN Panic ELSE Ok((a - b) % U16)) ELSE Ok(a - b)

\* a % b in u16: a zero divisor panics in every build
RemU16(a, b) == IF b = 0 THEN Panic ELSE Ok(a % b)

\* (self + other + bound) % bound, evaluated left to right
AddAxis(self, other, bound, checks) ==
    LET s1 == AddU16(self, other, checks) IN
    IF ~s1.ok THEN Panic
    ELSE LET s2 == AddU16(s1.val, bound, checks) IN
         IF ~s2.ok THEN Panic ELSE RemU16(s2.val, bound)

\* Coordinates::add; the bounds of the result are those of self
CoordinatesAdd(self, other, checks) ==
    LET x == AddAxis(self.x, other.x, self.bounds[1], checks)
        y == AddAxis(self.y, other.y, self.bounds[2], checks) IN
    [ok |-> x.ok /\ y.ok, x |-> x.val, y |-> y.val, bounds |-> self.bounds]

Coordinates(x, y, bounds) == [x |-> x, y |-> y, bounds |-> bounds]

-----------------------------------------------------------------------------
(* Coordinates::add on its own: sums of three operands a, b, c *)

\* values of the fields x and y, and bounds, the operands are drawn from
AddValuesX == {0, 4, 65530, 65535}
AddValuesY == {0, 1}
AddBounds == {<<3, 2>>, <<4, 2>>, <<0, 1>>}

\* no operands and no sums: Coordinates::add is not called on its own
NoOperands == <<>>
NoSums == <<>>

\* a sum not evaluated yet; an evaluated sum; an evaluation ended by a panic
NotComputed == [done |-> FALSE, ok |-> FALSE, x |-> 0, y |-> 0, bounds |-> <<0, 0>>]
Computed(r) ==
    IF r.ok THEN [done |-> TRUE, ok |-> TRUE, x |-> r.x, y |-> r.y, bounds |-> r.bounds]
    ELSE [done |-> TRUE, ok |-> FALSE, x |-> 0, y |-> 0, bounds |-> <<0, 0>>]

NothingComputed ==
    [ab |-> NotComputed, bc |-> NotComputed, ab_c |-> NotComputed, a_bc |-> NotComputed]

\* l + r where l or r may itself be a sum whose evaluation has panicked
Sum(l, r, checks) ==
    IF ~l.ok \/ ~r.ok THEN Computed([ok |-> FALSE])
    ELSE Computed(CoordinatesAdd(Coordinates(l.x, l.y, l.bounds),
                                 Coordinates(r.x, r.y, r.bounds), checks))

\* an operand as a value that is there
Operand(p) == [ok |-> TRUE, x |-> p.x, y |-> p.y, bounds |-> p.bounds]

-----------------------------------------------------------------------------
(* The channel *)

\* a receive that drains the queue and yields the newest value
TryRecvLatest(q) ==
    IF q = <<>> THEN [some |-> FALSE, val |-> InitialDirection, rest |-> q]
    ELSE [some |-> TRUE, val |-> q[Len(q)], rest |-> <<>>]

\* a receive that takes the newest value and leaves the older ones
TryRecvNewest(q) ==
    IF q = <<>> THEN [some |-> FALSE, val |-> InitialDirection, rest |-> q]
    ELSE [some |-> TRUE, val |-> q[Len(q)], rest |-> SubSeq(q, 1, Len(q) - 1)]

\* Receiver::try_recv: the oldest queued value, if any, and the rest of the queue
TryRecv(q) ==
    IF q = <<>> THEN [some |-> FALSE, val |-> InitialDirection, rest |-> q]
    ELSE [some |-> TRUE, val |-> Head(q), rest |-> Tail(q)]

\* a latch that falls back to the initial direction when nothing was received
LatchDirectionReset(dir, recv) == IF recv.some THEN recv.val ELSE InitialDirection

\* if let Ok(new_direction) = try_recv() { direction = new_direction }
LatchDirection(dir, recv) == IF recv.some THEN recv.val ELSE dir

\* the receiver lives in main's frame: it is dropped when main returns or unwinds
RxAlive == pcMain \notin {"returned", "panicked", "exited"}

ProcessAlive == pcMain # "exited"

\* 1 if the condition holds, else 0
Count(cond) == IF cond THEN 1 ELSE 0

RECURSIVE RunningHandlers(_)
RunningHandlers(pool) ==
    IF pool = <<>> THEN 0 ELSE Count(Head(pool) = "running") + RunningHandlers(Tail(pool))

\* the sending handles held by the input threads alone
SenderHandlesOfThreads ==
    Count(ProcessAlive /\ kbd = "running")
        + Count(ProcessAlive /\ sock \in {"binding", "listening"})
        + (IF ProcessAlive THEN RunningHandlers(connection_pool) ELSE 0)
        + Count(ProcessAlive /\ web \in {"binding", "serving"})

\* the Sender handles in existence: direction_tx, which stays in main's frame,
\* and the clones moved into the threads, each dropped when its thread ends
SenderHandles ==
    Count(RxAlive) + SenderHandlesOfThreads

-----------------------------------------------------------------------------
(* The movement step of the render loop *)

AdvancePosition(pos, dir, checks) ==
    CASE dir = "Right" ->
           LET r == AddU16(pos.x, 1, checks) IN [ok |-> r.ok, x |-> r.val, y |-> pos.y]
      [] dir = "Left" ->
           LET r == SubU16(pos.x, 1, checks) IN [ok |-> r.ok, x |-> r.val, y |-> pos.y]
      [] dir = "Up" ->
           LET r == SubU16(pos.y, 1, checks) IN [ok |-> r.ok, x |-> pos.x, y |-> r.val]
      [] dir = "Down" ->
           LET r == AddU16(pos.y, 1, checks) IN [ok |-> r.ok, x |-> pos.x, y |-> r.val]

-----------------------------------------------------------------------------
(* The animation frames *)

\* side of the square sprite (pacman_size, scaled down)
SpriteSize == 2

SpritePixels == (0..(SpriteSize - 1)) \X (0..(SpriteSize - 1))

\* colours of the decoded animation, as Rgba
Palette == << <<255, 255, 255, 255>>, <<0, 0, 0, 255>>, <<255, 204, 0, 255>>, <<1, 10, 171, 0>> >>

\* pixel (x, y) of frame f of the decoded, resized animation
GifPixel(f, x, y) == Palette[((f + x + 2 * y) % Len(Palette)) + 1]

\* an image is a function from <<x, y>> to Rgba; a frame sequence is indexed from 0
right_frames == [f \in 0..(NumFrames - 1) |-> [p \in SpritePixels |-> GifPixel(f, p[1], p[2])]]

\* imageops::flip_horizontal: column x comes from column width - 1 - x
flip_horizontal(img) == [p \in SpritePixels |-> img[<<SpriteSize - 1 - p[1], p[2]>>]]

\* imageops::flip_vertical: row y comes from row height - 1 - y
flip_vertical(img) == [p \in SpritePixels |-> img[<<p[1], SpriteSize - 1 - p[2]>>]]

\* imageops::rotate90 (clockwise): pixel (x, y) goes to (height - 1 - y, x)
rotate90(img) == [p \in SpritePixels |-> img[<<p[2], SpriteSize - 1 - p[1]>>]]

left_frames == [f \in DOMAIN right_frames |-> flip_horizontal(right_frames[f])]
down_frames == [f \in DOMAIN right_frames |-> rotate90(right_frames[f])]
up_frames == [f \in DOMAIN down_frames |-> flip_vertical(down_frames[f])]

\* let current_frames = match direction { ... }
current_frames(dir) ==
    CASE dir = "Right" -> right_frames
      [] dir = "Left" -> left_frames
      [] dir = "Up" -> up_frames
      [] dir = "Down" -> down_frames

\* an index that forgets the division by the frame duration
FrameIndexNoDuration(elapsed, len) == elapsed % len

\* (elapsed_time / frame_duration) as usize % current_frames.len()
FrameIndex(elapsed, len) == (elapsed \div frame_duration) % len

-----------------------------------------------------------------------------
(* Pixel::write *)

DigitChar(d) ==
    CASE d = 0 -> "0" [] d = 1 -> "1" [] d = 2 -> "2" [] d = 3 -> "3" [] d = 4 -> "4"
      [] d = 5 -> "5" [] d = 6 -> "6" [] d = 7 -> "7" [] d = 8 -> "8" [] d = 9 -> "9"

\* Display of an unsigned integer ({x}): its decimal digits, no sign, no padding
RECURSIVE Decimal(_)
Decimal(n) ==
    IF n < 10 THEN <<DigitChar(n)>> ELSE Decimal(n \div 10) \o <<DigitChar(n % 10)>>

LowerHexChar(d) ==
    IF d < 10 THEN DigitChar(d)
    ELSE CASE d = 10 -> "a" [] d = 11 -> "b" [] d = 12 -> "c"
           [] d = 13 -> "d" [] d = 14 -> "e" [] d = 15 -> "f"

\* LowerHex of a u8 with width 2 and zero fill ({r:02x})
LowerHex02(v) == <<LowerHexChar(v \div 16), LowerHexChar(v % 16)>>

\* impl From<Rgba<u8>> for Color: the alpha channel is dropped
ColorFrom(rgba) == [r |-> rgba[1], g |-> rgba[2], b |-> rgba[3]]

\* writeln!(buffer, "PX {x} {y} {r:02x}{g:02x}{b:02x}")
PixelWrite(point, rgb) ==
    <<"P", "X", " ">> \o Decimal(point.x) \o <<" ">> \o Decimal(point.y) \o <<" ">>
        \o LowerHex02(rgb.r) \o LowerHex02(rgb.g) \o LowerHex02(rgb.b) \o <<"\n">>

-----------------------------------------------------------------------------
(* write_frame_to_stream *)

NumPixels == SpriteSize * SpriteSize

\* an enumeration that runs down the columns
enumerate_pixels_by_column(k) == <<(k - 1) \div SpriteSize, (k - 1) % SpriteSize>>

\* ImageBuffer::enumerate_pixels: row by row, x fastest; the k-th pixel (from 1)
enumerate_pixels(k) == <<(k - 1) % SpriteSize, (k - 1) \div SpriteSize>>

\* the canvas point of the k-th sprite pixel: Coordinates { x, y, bounds } + position
FramePoint(k, pos, size, checks) ==
    CoordinatesAdd(Coordinates(enumerate_pixels(k)[1], enumerate_pixels(k)[2], size),
                   pos, checks)

\* the outcome of one call: the connection may fail at any write of the call,
\* the first included, unless the coordinate arithmetic has panicked before it
WriteFrameOutcome(pos, size, checks, ioFails) ==
    IF ioFails
    THEN (IF FramePoint(1, pos, size, checks).ok THEN "err" ELSE "panic")
    ELSE IF \E k \in 1..NumPixels : ~FramePoint(k, pos, size, checks).ok THEN "panic"
    ELSE "ok"

\* the lines a call that returns Ok has written, in the order written
write_frame_to_stream(frame, pos, size, checks) ==
    [k \in 1..NumPixels |->
        PixelWrite(FramePoint(k, pos, size, checks), ColorFrom(frame[enumerate_pixels(k)]))]

\* the lines handed to buff_writer by the call of write_frame_to_stream that
\* the step taken last has completed: that call has left position, direction
\* and frame_idx as it used them
wire ==
    IF last.who = "main" /\ last.out = "write_ok"
    THEN write_frame_to_stream(current_frames(direction)[frame_idx], position,
                               canvas_size, overflow_checks)
    ELSE <<>>

\* milliseconds the clock may have advanced between two readings
ClockSteps == {0, 150, 200}

-----------------------------------------------------------------------------
(* Inputs of the environment *)

\* lines the canvas server may answer to SIZE ("" is end of stream)
SizeResponses ==
    { <<"S", "I", "Z", "E", " ", "8", "0", "0", " ", "6", "0", "0", "\n">>,
      <<"S", "I", "Z", "E", " ", "2", "\t", "+", "3", " ", "9", "\r", "\n">>,
      <<"S", "I", "Z", "E", " ", "0", " ", "2", "\n">>,
      <<"S", "I", "Z", "E", "\n">>,
      <<"S", "I", "Z", "E", " ", "3", "\n">>,
      <<"S", "I", "Z", "E", " ", "6", "5", "5", "3", "6", " ", "2", "\n">>,
      <<"S", "I", "Z", "E", " ", "3", " ", "-", "2", "\n">>,
      <<"\n">>,
      <<>> }

\* start coordinates given on the command line
StartPositions == { <<0, 0>>, <<1, 1>> }

\* characters the terminal may deliver
KeyChars == {"w", "a", "s", "d", "x", "W"}

\* lines a remote control may send (<<>> is end of stream)
ControlLines ==
    { <<"w", "\n">>, <<"a", "\n">>, <<"s", "\n">>, <<" ", "d", "\r", "\n">>,
      <<"w", "a", "\n">>, <<"\n">>, <<>> }

\* requests the HTTP server may receive: <<method, url>>
HttpRequests ==
    { <<"GET", "/">>, <<"POST", "/w">>, <<"POST", "/a">>, <<"POST", "/s">>,
      <<"POST", "/d">>, <<"POST", "/">>, <<"GET", "/w">>, <<"PUT", "/x">> }

-----------------------------------------------------------------------------
(* The mappings of the three input sources *)

\* match c { 'w' => Up, 'a' => Left, 's' => Down, 'd' => Right, _ => continue }
KeyDirection(c) ==
    CASE c = "w" -> Some("Up")
      [] c = "a" -> Some("Left")
      [] c = "s" -> Some("Down")
      [] c = "d" -> Some("Right")
      [] OTHER -> None

\* a match on the line as read, without the trim
LineDirectionNoTrim(buffer) ==
    CASE buffer = <<"w">> -> Some("Up")
      [] buffer = <<"a">> -> Some("Left")
      [] buffer = <<"s">> -> Some("Down")
      [] buffer = <<"d">> -> Some("Right")
      [] OTHER -> None

\* match buffer.trim() { "w" => Up, ... , _ => continue }
LineDirection(buffer) ==
    LET t == Trim(buffer) IN
    CASE t = <<"w">> -> Some("Up")
      [] t = <<"a">> -> Some("Left")
      [] t = <<"s">> -> Some("Down")
      [] t = <<"d">> -> Some("Right")
      [] OTHER -> None

\* match cmd { "/w" => Some(Up), ... , _ => None }
PathDirection(cmd) ==
    CASE cmd = "/w" -> Some("Up")
      [] cmd = "/a" -> Some("Left")
      [] cmd = "/s" -> Some("Down")
      [] cmd = "/d" -> Some("Right")
      [] OTHER -> None

\* a router that takes the direction from the path whatever the method
HttpRouteAnyMethod(method, url) ==
    IF method = "GET" /\ url = "/" THEN [status |-> 200, dir |-> None]
    ELSE IF PathDirection(url).some
         THEN [status |-> 200, dir |-> PathDirection(url)]
         ELSE [status |-> 404, dir |-> None]

\* match (method, url): the status of the response and the direction to send
HttpRoute(method, url) ==
    IF method = "GET" /\ url = "/" THEN [status |-> 200, dir |-> None]
    ELSE IF method = "POST"
         THEN (IF PathDirection(url).some
               THEN [status |-> 200, dir |-> PathDirection(url)]
               ELSE [status |-> 404, dir |-> None])
         ELSE [status |-> 404, dir |-> None]

-----------------------------------------------------------------------------
(* State after main has spawned the three input threads (line 265) *)

Step(who, id, inp, out, status) ==
    [who |-> who, id |-> id, inp |-> inp, out |-> out, status |-> status]

Init ==
    /\ overflow_checks \in BOOLEAN
    /\ args \in StartPositions
    /\ pcMain = "connect"
    /\ canvas_size = <<0, 0>>
    /\ position = Coordinates(args[1], args[2], <<0, 0>>)
    /\ direction = InitialDirection
    /\ nwrites = 0
    /\ ticks = 0
    /\ queue = <<>>
    /\ nsent = 0
    /\ kbd = "running"
    /\ sock = "binding"
    /\ connection_pool = <<>>
    /\ web = "binding"
    /\ last = Step("main", 0, <<>>, "spawned", 0)
    /\ elapsed_time = 0
    /\ frame_idx = 0
    /\ operands = NoOperands
    /\ sums = NoSums

-----------------------------------------------------------------------------
(* The main thread *)

\* TcpStream::connect(&args.url)?
Connect ==
    /\ pcMain = "connect"
    /\ \E ok \in BOOLEAN :
         /\ pcMain' = IF ok THEN "get_canvas_size" ELSE "returned"
         /\ last' = Step("main", 0, <<>>, IF ok THEN "connected" ELSE "connect_err", 0)
    /\ UNCHANGED <<addVars, frameVars, overflow_checks, args,
                   canvas_size, position, direction, nwrites,
                   ticks, queue, nsent, threadVars>>

\* get_canvas_size(&connection), then the set-up of the loop's state
GetCanvasSize ==
    /\ pcMain = "get_canvas_size"
    /\ \E sendOk \in BOOLEAN, read \in SizeResponses \cup {IoError} :
         LET r == get_canvas_size(read) IN
         IF sendOk /\ r.ok
         THEN /\ pcMain' = "poll"
              /\ canvas_size' = r.size
              /\ position' = Coordinates(args[1], args[2], r.size)
              /\ direction' = InitialDirection
              /\ last' = Step("main", 0, read, "size_ok", 0)
         ELSE /\ pcMain' = "panicked"
              /\ UNCHANGED <<canvas_size, position, direction>>
              /\ last' = Step("main", 0, IF sendOk THEN read ELSE <<>>,
                              IF sendOk THEN "size_panic" ELSE "size_send_panic", 0)
    /\ UNCHANGED <<addVars, frameVars, overflow_checks, args,
                   nwrites, ticks, queue, nsent, threadVars>>

\* if let Ok(new_direction) = direction_rx.try_recv() { direction = new_direction }
Poll ==
    /\ pcMain = "poll"
    /\ ticks < MaxTicks
    /\ LET recv == TryRecv(queue) IN
         /\ direction' = LatchDirection(direction, recv)
         /\ queue' = recv.rest
         /\ last' = Step("main", 0, <<>>,
                         IF recv.some THEN "recv"
                         ELSE IF SenderHandles = 0 THEN "disconnected" ELSE "empty", 0)
    /\ pcMain' = "advance"
    /\ ticks' = ticks + 1
    /\ UNCHANGED <<addVars, frameVars, overflow_checks, args,
                   canvas_size, position, nwrites, nsent, threadVars>>

\* position = match direction { ... }
Advance ==
    /\ pcMain = "advance"
    /\ LET r == AdvancePosition(position, direction, overflow_checks) IN
         IF r.ok
         THEN /\ position' = [position EXCEPT !.x = r.x, !.y = r.y]
              /\ pcMain' = "write"
              /\ last' = Step("main", 0, <<>>, "advance", 0)
         ELSE /\ pcMain' = "panicked"
              /\ UNCHANGED position
              /\ last' = Step("main", 0, <<>>, "advance_panic", 0)
    /\ nwrites' = 0
    /\ UNCHANGED <<addVars, frameVars, overflow_checks, args,
                   canvas_size, direction, ticks, queue, nsent,
                   threadVars>>

\* a loop that drops the result of the write instead of propagating it
AfterWriteIgnoreErr(out, n) ==
    CASE out = "panic" -> "panicked"
      [] n + 1 = WritesPerTick -> "poll"
      [] OTHER -> "write"

\* a loop that polls again after every frame written
AfterWriteRepoll(out, n) ==
    CASE out = "panic" -> "panicked"
      [] out = "err" -> "returned"
      [] OTHER -> "poll"

\* where main continues after a call of write_frame_to_stream(..)? with outcome
\* out, n calls of this iteration having returned before it
AfterWrite(out, n) ==
    CASE out = "panic" -> "panicked"
      [] out = "err" -> "returned"
      [] out = "ok" /\ n + 1 = WritesPerTick -> "poll"
      [] OTHER -> "write"

\* one pass of for _ in 0..10 { write_frame_to_stream(...)?; }
WriteFrame ==
    /\ pcMain = "write"
    /\ \E now \in {elapsed_time + d : d \in ClockSteps} :
         /\ now <= MaxElapsed
         /\ elapsed_time' = now
         /\ frame_idx' = FrameIndex(now, Cardinality(DOMAIN current_frames(direction)))
    /\ \E ioFails \in BOOLEAN :
         \E out \in {WriteFrameOutcome(position, canvas_size, overflow_checks, ioFails)} :
         /\ pcMain' = AfterWrite(out, nwrites)
         /\ nwrites' = IF out = "ok" /\ nwrites + 1 < WritesPerTick THEN nwrites + 1 ELSE 0
         /\ last' = Step("main", 0, <<>>,
                         CASE out = "panic" -> "write_panic"
                           [] out = "err" -> "write_err"
                           [] OTHER -> "write_ok", 0)
    /\ UNCHANGED <<addVars, overflow_checks, args, canvas_size, position, direction, ticks,
                   queue, nsent, threadVars>>

\* the runtime ends the process once main has returned or unwound
ProcessExit ==
    /\ pcMain \in {"returned", "panicked"}
    /\ pcMain' = "exited"
    /\ last' = Step("main", 0, <<>>, "exit", 0)
    /\ UNCHANGED <<addVars, frameVars, overflow_checks, args,
                   canvas_size, position, direction, nwrites,
                   ticks, queue, nsent, threadVars>>

-----------------------------------------------------------------------------
(* The keyboard thread *)

\* a keyboard loop on a channel of capacity one: the send waits for room
KeyboardReadBounded ==
    /\ ProcessAlive
    /\ kbd = "running"
    /\ \E c \in KeyChars :
         LET d == KeyDirection(c) IN
         IF ~d.some
         THEN /\ UNCHANGED <<queue, nsent, kbd>>
              /\ last' = Step("keyboard", 0, <<c>>, "ignored", 0)
         ELSE IF RxAlive
         THEN /\ nsent < MaxSends
              /\ queue = <<>>
              /\ queue' = Append(queue, d.val)
              /\ nsent' = nsent + 1
              /\ UNCHANGED kbd
              /\ last' = Step("keyboard", 0, <<c>>, "sent", 0)
         ELSE /\ kbd' = "panicked"
              /\ UNCHANGED <<queue, nsent>>
              /\ last' = Step("keyboard", 0, <<c>>, "send_failed", 0)
    /\ UNCHANGED <<addVars, frameVars, overflow_checks, args,
                   mainVars, sock, connection_pool, web>>

\* one pass of the loop: read_char, match, send
KeyboardRead ==
    /\ ProcessAlive
    /\ kbd = "running"
    /\ \E c \in KeyChars :
         LET d == KeyDirection(c) IN
         IF ~d.some
         THEN /\ UNCHANGED <<queue, nsent, kbd>>
              /\ last' = Step("keyboard", 0, <<c>>, "ignored", 0)
         ELSE IF RxAlive
         THEN /\ nsent < MaxSends
              /\ queue' = Append(queue, d.val)
              /\ nsent' = nsent + 1
              /\ UNCHANGED kbd
              /\ last' = Step("keyboard", 0, <<c>>, "sent", 0)
         ELSE /\ kbd' = "panicked"
              /\ UNCHANGED <<queue, nsent>>
              /\ last' = Step("keyboard", 0, <<c>>, "send_failed", 0)
    /\ UNCHANGED <<addVars, frameVars, overflow_checks, args,
                   mainVars, sock, connection_pool, web>>

\* term.read_char().expect("Failed to read input")
KeyboardReadFail ==
    /\ ProcessAlive
    /\ kbd = "running"
    /\ kbd' = "panicked"
    /\ last' = Step("keyboard", 0, <<>>, "read_failed", 0)
    /\ UNCHANGED <<addVars, frameVars, overflow_checks, args,
                   mainVars, queue, nsent, sock, connection_pool, web>>

-----------------------------------------------------------------------------
(* The TCP remote-control thread and its connection handlers *)

\* a bind whose failure ends the process instead of the thread
SocketBindFatal ==
    /\ ProcessAlive
    /\ sock = "binding"
    /\ \E ok \in BOOLEAN :
         /\ sock' = IF ok THEN "listening" ELSE "unavailable"
         /\ pcMain' = IF ok THEN pcMain ELSE "exited"
         /\ last' = Step("socket", 0, <<>>, IF ok THEN "bound" ELSE "bind_failed", 0)
    /\ UNCHANGED <<addVars, frameVars, overflow_checks, args,
                   canvas_size, position, direction, nwrites, ticks,
                   queue, nsent, kbd, connection_pool, web>>

\* TcpListener::bind("0.0.0.0:1234")
SocketBind ==
    /\ ProcessAlive
    /\ sock = "binding"
    /\ \E ok \in BOOLEAN :
         /\ sock' = IF ok THEN "listening" ELSE "unavailable"
         /\ last' = Step("socket", 0, <<>>, IF ok THEN "bound" ELSE "bind_failed", 0)
    /\ UNCHANGED <<addVars, frameVars, overflow_checks, args,
                   mainVars, queue, nsent, kbd, connection_pool, web>>

\* one pass of for stream in listener.incoming(): spawn a handler
Accept ==
    /\ ProcessAlive
    /\ sock = "listening"
    /\ Len(connection_pool) < MaxConns
    /\ connection_pool' = Append(connection_pool, "running")
    /\ last' = Step("socket", Len(connection_pool) + 1, <<>>, "accepted", 0)
    /\ UNCHANGED <<addVars, frameVars, overflow_checks, args,
                   mainVars, queue, nsent, kbd, sock, web>>

\* stream.expect("Failed to get stream"), stream.peer_addr().expect(...)
AcceptFail ==
    /\ ProcessAlive
    /\ sock = "listening"
    /\ sock' = "panicked"
    /\ last' = Step("socket", 0, <<>>, "accept_failed", 0)
    /\ UNCHANGED <<addVars, frameVars, overflow_checks, args,
                   mainVars, queue, nsent, kbd, connection_pool, web>>

\* one pass of handler i's loop: read_line, is_empty, match, send
HandlerReadLine(i) ==
    /\ ProcessAlive
    /\ connection_pool[i] = "running"
    /\ \E buffer \in ControlLines :
         LET d == LineDirection(buffer) IN
         IF buffer = <<>>
         THEN /\ connection_pool' = [connection_pool EXCEPT ![i] = "finished"]
              /\ UNCHANGED <<queue, nsent>>
              /\ last' = Step("handler", i, buffer, "closed", 0)
         ELSE IF ~d.some
         THEN /\ UNCHANGED <<queue, nsent, connection_pool>>
              /\ last' = Step("handler", i, buffer, "ignored", 0)
         ELSE IF RxAlive
         THEN /\ nsent < MaxSends
              /\ queue' = Append(queue, d.val)
              /\ nsent' = nsent + 1
              /\ UNCHANGED connection_pool
              /\ last' = Step("handler", i, buffer, "sent", 0)
         ELSE /\ connection_pool' = [connection_pool EXCEPT ![i] = "panicked"]
              /\ UNCHANGED <<queue, nsent>>
              /\ last' = Step("handler", i, buffer, "send_failed", 0)
    /\ UNCHANGED <<addVars, frameVars, overflow_checks, args,
                   mainVars, kbd, sock, web>>

\* a read failure that takes every handler and the listener down with it
HandlerReadFailAll(i) ==
    /\ ProcessAlive
    /\ connection_pool[i] = "running"
    /\ connection_pool' = [j \in 1..Len(connection_pool) |-> "panicked"]
    /\ sock' = "panicked"
    /\ last' = Step("handler", i, <<>>, "read_failed", 0)
    /\ UNCHANGED <<addVars, frameVars, overflow_checks, args,
                   mainVars, queue, nsent, kbd, web>>

\* reader.read_line(&mut buffer).expect(...) in handler i
HandlerReadFail(i) ==
    /\ ProcessAlive
    /\ connection_pool[i] = "running"
    /\ connection_pool' = [connection_pool EXCEPT ![i] = "panicked"]
    /\ last' = Step("handler", i, <<>>, "read_failed", 0)
    /\ UNCHANGED <<addVars, frameVars, overflow_checks, args,
                   mainVars, queue, nsent, kbd, sock, web>>

-----------------------------------------------------------------------------
(* The HTTP remote-control thread *)

\* Server::http("0.0.0.0:8080")
WebBind ==
    /\ ProcessAlive
    /\ web = "binding"
    /\ \E ok \in BOOLEAN :
         /\ web' = IF ok THEN "serving" ELSE "unavailable"
         /\ last' = Step("web", 0, <<>>, IF ok THEN "bound" ELSE "bind_failed", 0)
    /\ UNCHANGED <<addVars, frameVars, overflow_checks, args,
                   mainVars, queue, nsent, kbd, sock, connection_pool>>

\* one pass of for request in server.incoming_requests(): route, send, respond;
\* respondOk tells whether request.respond(..) returns Ok
WebHandle(respondOk) ==
    /\ ProcessAlive
    /\ web = "serving"
    /\ \E req \in HttpRequests :
         LET route == HttpRoute(req[1], req[2]) IN
         IF route.dir.some /\ ~RxAlive
         THEN /\ web' = "panicked"
              /\ UNCHANGED <<queue, nsent>>
              /\ last' = Step("web", 0, req, "send_failed", 0)
         ELSE /\ IF route.dir.some
                 THEN /\ nsent < MaxSends
                      /\ queue' = Append(queue, route.dir.val)
                      /\ nsent' = nsent + 1
                 ELSE UNCHANGED <<queue, nsent>>
              /\ web' = IF respondOk THEN web ELSE "panicked"
              /\ last' = Step("web", 0, req,
                              IF respondOk THEN "responded" ELSE "respond_failed",
                              route.status)
    /\ UNCHANGED <<addVars, frameVars, overflow_checks, args,
                   mainVars, kbd, sock, connection_pool>>

WebRequest == WebHandle(TRUE)

\* request.respond(..).unwrap() on a connection that fails
WebRequestRespondFail == WebHandle(FALSE)

-----------------------------------------------------------------------------
(* The whole program *)

Next ==
    \/ Connect
    \/ GetCanvasSize
    \/ Poll
    \/ Advance
    \/ WriteFrame
    \/ ProcessExit
    \/ KeyboardRead
    \/ KeyboardReadFail
    \/ SocketBind
    \/ Accept
    \/ AcceptFail
    \/ \E i \in 1..Len(connection_pool) : HandlerReadLine(i)
    \/ \E i \in 1..Len(connection_pool) : HandlerReadFail(i)
    \/ WebBind
    \/ WebRequest
    \/ WebRequestRespondFail

Spec == Init /\ [][Next]_vars

(* The render loop with the keyboard as its only producer: the program in   *)
(* which both control ports were taken (both binds have failed).            *)

InitLoop ==
    /\ overflow_checks \in BOOLEAN
    /\ args \in StartPositions
    /\ pcMain = "connect"
    /\ canvas_size = <<0, 0>>
    /\ position = Coordinates(args[1], args[2], <<0, 0>>)
    /\ direction = InitialDirection
    /\ nwrites = 0
    /\ ticks = 0
    /\ queue = <<>>
    /\ nsent = 0
    /\ kbd = "running"
    /\ sock = "unavailable"
    /\ connection_pool = <<>>
    /\ web = "unavailable"
    /\ last = Step("web", 0, <<>>, "bind_failed", 0)
    /\ elapsed_time = 0
    /\ frame_idx = 0
    /\ operands = NoOperands
    /\ sums = NoSums

NextLoop ==
    \/ Connect
    \/ GetCanvasSize
    \/ Poll
    \/ Advance
    \/ (elapsed_time' = elapsed_time /\ WriteFrame)
    \/ ProcessExit
    \/ KeyboardRead
    \/ KeyboardReadFail

SpecLoop == InitLoop /\ [][NextLoop]_vars

(* The three input sources beside a running render loop: the program once  *)
(* the handshake has answered "SIZE 3 2" and before any thread has moved,   *)
(* in an environment whose terminal reads, accepts, socket reads and HTTP   *)
(* responses succeed.                                                       *)

InitInput ==
    /\ overflow_checks = TRUE
    /\ args = <<1, 1>>
    /\ pcMain = "poll"
    /\ canvas_size = <<3, 2>>
    /\ position = Coordinates(1, 1, <<3, 2>>)
    /\ direction = InitialDirection
    /\ nwrites = 0
    /\ ticks = 0
    /\ queue = <<>>
    /\ nsent = 0
    /\ kbd = "running"
    /\ sock = "binding"
    /\ connection_pool = <<>>
    /\ web = "binding"
    /\ last = Step("main", 0, <<"S", "I", "Z", "E", " ", "3", " ", "2", "\n">>, "size_ok", 0)
    /\ elapsed_time = 0
    /\ frame_idx = 0
    /\ operands = NoOperands
    /\ sums = NoSums

NextInput ==
    \/ (Poll /\ ticks' <= MaxInputTicks)
    \/ Advance
    \/ (elapsed_time' = elapsed_time /\ WriteFrame)
    \/ ProcessExit
    \/ (KeyboardRead /\ nsent' <= MaxInputSends)
    \/ SocketBind
    \/ (Len(connection_pool) < MaxInputConns /\ Accept)
    \/ \E i \in 1..Len(connection_pool) : (HandlerReadLine(i) /\ nsent' <= MaxInputSends)
    \/ WebBind
    \/ (WebRequest /\ nsent' <= MaxInputSends)

SpecInput == InitInput /\ [][NextInput]_vars

(* The TCP remote control beside a running render loop: the program once   *)
(* the handshake has answered "SIZE 3 2", the terminal read has failed and  *)
(* the HTTP port was taken.                                                 *)

InitSocket ==
    /\ overflow_checks = TRUE
    /\ args = <<1, 1>>
    /\ pcMain = "poll"
    /\ canvas_size = <<3, 2>>
    /\ position = Coordinates(1, 1, <<3, 2>>)
    /\ direction = InitialDirection
    /\ nwrites = 0
    /\ ticks = 0
    /\ queue = <<>>
    /\ nsent = 0
    /\ kbd = "panicked"
    /\ sock = "binding"
    /\ connection_pool = <<>>
    /\ web = "unavailable"
    /\ last = Step("web", 0, <<>>, "bind_failed", 0)
    /\ elapsed_time = 0
    /\ frame_idx = 0
    /\ operands = NoOperands
    /\ sums = NoSums

NextSocket ==
    \/ (Poll /\ ticks' <= MaxInputTicks)
    \/ Advance
    \/ (elapsed_time' = elapsed_time /\ WriteFrame)
    \/ ProcessExit
    \/ SocketBind
    \/ Accept
    \/ AcceptFail
    \/ \E i \in 1..Len(connection_pool) : (HandlerReadLine(i) /\ nsent' <= MaxInputSends)
    \/ \E i \in 1..Len(connection_pool) : HandlerReadFail(i)

SpecSocket == InitSocket /\ [][NextSocket]_vars

(* The render loop that keeps completing iterations: the program, built    *)
(* with overflow checks, once the handshake has answered "SIZE 3 2", on a    *)
(* canvas connection whose writes succeed, with the keyboard delivering the  *)
(* keys a and s at any rate; the main thread is scheduled whenever it can    *)
(* step.                                                                     *)

InitLive ==
    /\ overflow_checks = TRUE
    /\ args = <<1, 1>>
    /\ pcMain = "poll"
    /\ canvas_size = <<3, 2>>
    /\ position = Coordinates(1, 1, <<3, 2>>)
    /\ direction = InitialDirection
    /\ nwrites = 0
    /\ ticks = 0
    /\ queue = <<>>
    /\ nsent = 0
    /\ kbd = "running"
    /\ sock = "unavailable"
    /\ connection_pool = <<>>
    /\ web = "unavailable"
    /\ last = Step("main", 0, <<>>, "size_ok", 0)
    /\ elapsed_time = 0
    /\ frame_idx = 0
    /\ operands = NoOperands
    /\ sums = NoSums

\* a step of the render loop on a connection that takes the frame
LoopStep ==
    \/ Poll
    \/ Advance
    \/ (elapsed_time' = elapsed_time /\ WriteFrame /\ last'.out # "write_err")

NextLive ==
    \/ LoopStep
    \/ ProcessExit
    \/ (KeyboardRead /\ last'.out = "sent" /\ last'.inp \in {<<"a">>, <<"s">>})

SpecLive == InitLive /\ [][NextLive]_vars /\ WF_vars(LoopStep)

(* The frame writes of the render loop over time: the program once the     *)
(* handshake has answered, with the keyboard as its only producer (both     *)
(* binds have failed) and control keys as its only input, on a clock that   *)
(* advances between the writes.                                             *)

DrawCanvases == {<<800, 600>>, <<3, 2>>}

DrawStarts == {<<2, 4>>, <<0, 0>>, <<65000, 0>>}

InitDraw ==
    /\ overflow_checks \in BOOLEAN
    /\ args \in DrawStarts
    /\ pcMain = "poll"
    /\ canvas_size \in DrawCanvases
    /\ position = Coordinates(args[1], args[2], canvas_size)
    /\ direction = InitialDirection
    /\ nwrites = 0
    /\ ticks = 0
    /\ queue = <<>>
    /\ nsent = 0
    /\ kbd = "running"
    /\ sock = "unavailable"
    /\ connection_pool = <<>>
    /\ web = "unavailable"
    /\ last = Step("main", 0, <<>>, "size_ok", 0)
    /\ elapsed_time = 0
    /\ frame_idx = 0
    /\ operands = NoOperands
    /\ sums = NoSums

NextDraw ==
    \/ (Poll /\ ticks' <= MaxDrawTicks)
    \/ Advance
    \/ WriteFrame
    \/ ProcessExit
    \/ (KeyboardRead /\ last'.out = "sent" /\ nsent' <= MaxInputSends)

SpecDraw == InitDraw /\ [][NextDraw]_vars

(* Coordinates::add called on its own, on operands of any value: a + b,    *)
(* b + c, (a + b) + c and a + (b + c), each evaluated once, in any order.   *)

InitAdd ==
    /\ overflow_checks \in BOOLEAN
    /\ args = <<0, 0>>
    /\ pcMain = "connect"
    /\ canvas_size = <<0, 0>>
    /\ position = Coordinates(0, 0, <<0, 0>>)
    /\ direction = InitialDirection
    /\ nwrites = 0
    /\ ticks = 0
    /\ queue = <<>>
    /\ nsent = 0
    /\ kbd = "running"
    /\ sock = "binding"
    /\ connection_pool = <<>>
    /\ web = "binding"
    /\ last = Step("main", 0, <<>>, "spawned", 0)
    /\ elapsed_time = 0
    /\ frame_idx = 0
    /\ \E ba \in AddBounds, bb \in AddBounds :
         operands \in [a : {Coordinates(x, y, ba) : x \in AddValuesX, y \in AddValuesY},
                       b : {Coordinates(x, y, bb) : x \in AddValuesX, y \in AddValuesY},
                       c : {Coordinates(x, 0, ba) : x \in AddValuesX}]
    /\ sums = NothingComputed

AddAB ==
    /\ ~sums.ab.done
    /\ sums' = [sums EXCEPT !.ab = Sum(Operand(operands.a), Operand(operands.b),
                                       overflow_checks)]
    /\ UNCHANGED <<operands, frameVars, overflow_checks, args, mainVars, queue, nsent,
                   threadVars, last>>

AddBC ==
    /\ ~sums.bc.done
    /\ sums' = [sums EXCEPT !.bc = Sum(Operand(operands.b), Operand(operands.c),
                                       overflow_checks)]
    /\ UNCHANGED <<operands, frameVars, overflow_checks, args, mainVars, queue, nsent,
                   threadVars, last>>

AddAB_C ==
    /\ sums.ab.done /\ ~sums.ab_c.done
    /\ sums' = [sums EXCEPT !.ab_c = Sum(sums.ab, Operand(operands.c), overflow_checks)]
    /\ UNCHANGED <<operands, frameVars, overflow_checks, args, mainVars, queue, nsent,
                   threadVars, last>>

AddA_BC ==
    /\ sums.bc.done /\ ~sums.a_bc.done
    /\ sums' = [sums EXCEPT !.a_bc = Sum(Operand(operands.a), sums.bc, overflow_checks)]
    /\ UNCHANGED <<operands, frameVars, overflow_checks, args, mainVars, queue, nsent,
                   threadVars, last>>

NextAdd ==
    \/ AddAB
    \/ AddBC
    \/ AddAB_C
    \/ AddA_BC

SpecAdd == InitAdd /\ [][NextAdd]_vars

(* The three input sources at work beside the render loop: the program once *)
(* the handshake has answered "SIZE 3 2", both listeners have bound and one  *)
(* remote control has connected.                                             *)

InitChannel ==
    /\ overflow_checks = TRUE
    /\ args = <<1, 1>>
    /\ pcMain = "poll"
    /\ canvas_size = <<3, 2>>
    /\ position = Coordinates(1, 1, <<3, 2>>)
    /\ direction = InitialDirection
    /\ nwrites = 0
    /\ ticks = 0
    /\ queue = <<>>
    /\ nsent = 0
    /\ kbd = "running"
    /\ sock = "listening"
    /\ connection_pool = <<"running">>
    /\ web = "serving"
    /\ last = Step("socket", 1, <<>>, "accepted", 0)
    /\ elapsed_time = 0
    /\ frame_idx = 0
    /\ operands = NoOperands
    /\ sums = NoSums

NextChannel ==
    \/ (Poll /\ ticks' <= MaxInputTicks)
    \/ Advance
    \/ (elapsed_time' = elapsed_time /\ WriteFrame)
    \/ ProcessExit
    \/ KeyboardRead
    \/ \E i \in 1..Len(connection_pool) : HandlerReadLine(i)
    \/ WebRequest

SpecChannel == InitChannel /\ [][NextChannel]_vars

-----------------------------------------------------------------------------
(* Properties of the render loop, checked under SpecLoop *)

InLoop == pcMain \in {"poll", "advance", "write"}

InCanvas(x, y, size) == 0 <= x /\ x < size[1] /\ 0 <= y /\ y < size[2]

\* the step is the movement step of main
AdvanceStep == pcMain = "advance" /\ pcMain' # "advance"

\* the step is main's poll of the channel
PollStep == pcMain = "poll" /\ pcMain' = "advance"

\* one unit in direction dir with wraparound at size
WrappedMove(pos, dir, size) ==
    CASE dir = "Right" -> <<(pos.x + 1) % size[1], pos.y>>
      [] dir = "Left" -> <<(pos.x - 1) % size[1], pos.y>>
      [] dir = "Down" -> <<pos.x, (pos.y + 1) % size[2]>>
      [] dir = "Up" -> <<pos.x, (pos.y - 1) % size[2]>>

\* C1: a movement tick from a position inside the canvas completes and moves
\* the position one unit in the facing direction, wrapping at the canvas size:
\* Right x' = (x+1) mod width, Left x' = (x-1) mod width, Down y' = (y+1) mod
\* height, Up y' = (y-1) mod height, the other axis unchanged.
C1_TickWraps ==
    [][(AdvanceStep /\ InCanvas(position.x, position.y, canvas_size))
        => /\ pcMain' = "write"
           /\ <<position'.x, position'.y>> = WrappedMove(position, direction, canvas_size)]_vars

\* C2: in every state of the render loop started inside the canvas, the
\* position is inside the canvas: 0 <= x < width and 0 <= y < height.
C2_PositionInCanvas ==
    (InLoop /\ InCanvas(args[1], args[2], canvas_size))
        => InCanvas(position.x, position.y, canvas_size)

\* C3: the loop takes at most one event per poll and takes the oldest: a step
\* shortens the queue by at most one element, only a poll shortens it, a poll
\* of a non-empty queue latches its head and leaves its tail, and every other
\* step keeps the queued events, in order, at the front of the queue.
C3_FifoOnePerPoll ==
    [][/\ Len(queue') >= Len(queue) - 1
       /\ (Len(queue') < Len(queue)) => PollStep
       /\ (PollStep /\ queue # <<>>) => (direction' = Head(queue) /\ queue' = Tail(queue))
       /\ (PollStep /\ queue = <<>>) => queue' = <<>>
       /\ ~PollStep => (Len(queue') >= Len(queue) /\ SubSeq(queue', 1, Len(queue)) = queue)
      ]_vars

\* Up and then Left were queued before a poll: the poll latched Up, Left waits
C3_Witness ==
    /\ last.who = "main" /\ last.out = "recv"
    /\ direction = "Up"
    /\ queue = <<"Left">>

\* C4: facing is Right when the loop starts, a poll that finds the queue empty
\* leaves it unchanged, and it changes only at a poll that takes an event, to
\* that event's direction.
C4_LatchedFacing ==
    /\ [](ticks = 0 => direction = "Right")
    /\ [][/\ (PollStep /\ queue = <<>>) => direction' = direction
          /\ (direction' # direction) => (PollStep /\ queue # <<>> /\ direction' = Head(queue))
         ]_vars

\* an empty poll has left a latched direction other than the initial one in place
C4_Witness ==
    /\ last.who = "main" /\ last.out = "empty"
    /\ direction # "Right"
    /\ ticks = 2

\* C5: a write error on the canvas connection ends the loop: main returns the
\* error, and from then on it writes no frame, polls no event, does not move
\* the position and does not connect again.
C5_WriteErrorEndsLoop ==
    [][/\ (last'.who = "main" /\ last'.out = "write_err") => pcMain' = "returned"
       /\ (pcMain \in {"returned", "exited"})
            => /\ pcMain' \in {"returned", "exited"}
               /\ UNCHANGED <<position, direction, nwrites, ticks, queue, canvas_size>>
      ]_vars

\* main has returned a write error with an event still queued
C5_Witness ==
    /\ last.who = "main" /\ last.out = "write_err"
    /\ pcMain = "returned"
    /\ queue # <<>>

\* what the handshake is to answer for each response of SizeResponses: the
\* second and third token as <<width, height>>, or <<>> when there are fewer
\* than three tokens or one of the two is no uint16
ExpectedSize(read) ==
    CASE read = <<"S", "I", "Z", "E", " ", "8", "0", "0", " ", "6", "0", "0", "\n">>
           -> <<800, 600>>
      [] read = <<"S", "I", "Z", "E", " ", "2", "\t", "+", "3", " ", "9", "\r", "\n">>
           -> <<2, 3>>
      [] read = <<"S", "I", "Z", "E", " ", "0", " ", "2", "\n">>
           -> <<0, 2>>
      [] OTHER -> <<>>

HandshakeStep == last.who = "main" /\ last.out \in {"size_ok", "size_panic"}

\* C6 as the specification states it: a well-formed response gives its <<width, height>>; any other
\* response is reported as an error without a panic, and the loop is not entered.
C6_Original ==
    HandshakeStep =>
        IF ExpectedSize(last.inp) # <<>>
        THEN pcMain = "poll" /\ canvas_size = ExpectedSize(last.inp)
        ELSE pcMain = "returned"

\* C6 as amended: a well-formed response gives its <<width, height>>; for any other
\* response get_canvas_size panics, and main, once panicked, never enters the loop.
C6_HandshakePanics ==
    /\ [](HandshakeStep =>
            IF ExpectedSize(last.inp) # <<>>
            THEN pcMain = "poll" /\ canvas_size = ExpectedSize(last.inp)
            ELSE pcMain = "panicked" /\ ticks = 0)
    /\ [][(pcMain \in {"panicked", "exited"}) => (pcMain' \in {"panicked", "exited"})]_vars

\* the one-token response "SIZE\n" has made get_canvas_size panic
C6_Witness ==
    /\ last.who = "main" /\ last.out = "size_panic"
    /\ last.inp = <<"S", "I", "Z", "E", "\n">>
    /\ pcMain = "panicked"

-----------------------------------------------------------------------------
(* Properties of the input sources, checked under SpecInput and SpecSocket *)

\* the direction the control letter k stands for
Wasd(k) ==
    CASE k = "w" -> "Up"
      [] k = "a" -> "Left"
      [] k = "s" -> "Down"
      [] k = "d" -> "Right"
      [] OTHER -> "none"

NonWhitespace(c) == c \notin Whitespace

\* the event an input of a source stands for, "none" when it is not recognized:
\* a character; a line that holds one letter besides leading and trailing
\* whitespace; a POST of the path "/" followed by the letter
ExpectedEvent(step) ==
    CASE step.who = "keyboard" -> Wasd(step.inp[1])
      [] step.who = "handler" ->
           LET t == SelectSeq(step.inp, NonWhitespace) IN
           IF Len(t) = 1 THEN Wasd(t[1]) ELSE "none"
      [] step.who = "web" ->
           IF step.inp[1] # "POST" THEN "none"
           ELSE CASE step.inp[2] = "/w" -> "Up"
                  [] step.inp[2] = "/a" -> "Left"
                  [] step.inp[2] = "/s" -> "Down"
                  [] step.inp[2] = "/d" -> "Right"
                  [] OTHER -> "none"

\* the step is an input source handling an input it has read
InputStep == last'.who \in {"keyboard", "handler", "web"} /\ last'.inp # <<>>

\* C7: while the receiving end of the channel exists, every input source
\* enqueues exactly one event for a recognized input, by the mapping w -> Up,
\* a -> Left, s -> Down, d -> Right, and for any other input enqueues nothing
\* and fails nowhere; after either, every source is in the state it was in.
C7_SourcesMapInputs ==
    [][(InputStep /\ RxAlive) =>
         /\ IF ExpectedEvent(last') # "none"
            THEN /\ queue' = Append(queue, ExpectedEvent(last'))
                 /\ last'.out \in {"sent", "responded"}
            ELSE /\ queue' = queue
                 /\ last'.out \in {"ignored", "responded"}
         /\ UNCHANGED <<kbd, sock, connection_pool, web>>
      ]_vars

\* a remote control's line " d\r\n" has put Right into the empty queue
C7_Witness ==
    /\ last.who = "handler" /\ last.out = "sent"
    /\ last.inp = <<" ", "d", "\r", "\n">>
    /\ queue = <<"Right">>

\* the status the HTTP listener is to answer a request with
ExpectedStatus(req) ==
    IF req = <<"GET", "/">> THEN 200
    ELSE IF req[1] = "POST" /\ req[2] \in {"/w", "/a", "/s", "/d"} THEN 200
    ELSE 404

\* C8: while the receiving end of the channel exists, the HTTP listener answers
\* every request once, by the table: GET / with 200 and no event; POST /w, /a,
\* /s, /d with 200 after enqueuing Up, Left, Down, Right; any other request with
\* 404 and no event.
C8_HttpTable ==
    [][(last'.who = "web" /\ last'.inp # <<>> /\ RxAlive) =>
         /\ last'.out = "responded"
         /\ last'.status = ExpectedStatus(last'.inp)
         /\ IF last'.inp[1] = "POST" /\ last'.inp[2] \in {"/w", "/a", "/s", "/d"}
            THEN queue' = Append(queue, ExpectedEvent(last')) /\ nsent' = nsent + 1
            ELSE queue' = queue /\ nsent' = nsent
         /\ web' = web
      ]_vars

\* POST /s has been answered 200 with Down enqueued
C8_Witness ==
    /\ last.who = "web" /\ last.out = "responded"
    /\ last.inp = <<"POST", "/s">>
    /\ last.status = 200
    /\ queue = <<"Down">>

\* the step is a failed bind of one of the two listeners
BindFailStep == last'.out = "bind_failed" /\ last' # last

\* C9: a failed bind of the TCP or of the HTTP listener changes nothing but the
\* state of that thread, which is then over: it spawns no handler and takes no
\* further step; the render loop and every running source can still step, and
\* a running source can still enqueue an event.
C9_BindFailureIsolated ==
    /\ [][/\ BindFailStep => UNCHANGED <<mainVars, queue, nsent, kbd, connection_pool>>
          /\ (BindFailStep /\ last'.who = "socket")
                => (sock # "unavailable" /\ sock' = "unavailable" /\ web' = web)
          /\ (BindFailStep /\ last'.who = "web")
                => (web # "unavailable" /\ web' = "unavailable" /\ sock' = sock)
          /\ (sock = "unavailable")
                => (sock' = "unavailable" /\ last'.who \notin {"socket", "handler"})
          /\ (web = "unavailable") => (web' = "unavailable" /\ last'.who # "web")
         ]_vars
    /\ []((sock = "unavailable" \/ web = "unavailable") =>
            /\ sock = "unavailable" => connection_pool = <<>>
            /\ (InLoop /\ (pcMain # "poll" \/ ticks < MaxInputTicks))
                  => ENABLED ((Poll /\ ticks' <= MaxInputTicks) \/ Advance \/ WriteFrame)
            /\ (kbd = "running" /\ RxAlive /\ nsent < MaxInputSends)
                  => ENABLED (KeyboardRead /\ queue' # queue)
            /\ (web = "serving" /\ RxAlive /\ nsent < MaxInputSends)
                  => ENABLED (WebRequest /\ queue' # queue)
            /\ (sock = "listening" /\ Len(connection_pool) < MaxInputConns /\ ProcessAlive)
                  => ENABLED Accept)

\* both binds have failed, the keyboard has delivered an event and the loop has taken it
C9_Witness ==
    /\ sock = "unavailable" /\ web = "unavailable"
    /\ nsent = 1 /\ queue = <<>>
    /\ direction = "Down"
    /\ pcMain = "write"

\* the step is the end of a connection handler on end of stream or on a read error
HandlerEndStep ==
    last'.who = "handler" /\ last'.out \in {"closed", "read_failed"} /\ last' # last

\* C10: the end of a connection handler on end of stream or on a read error
\* changes the state of that handler only: the queue keeps its events, the
\* other handlers, the listener and the render loop are as before; in the
\* state it leaves, every running handler can read, the listener can accept
\* and the render loop can step.
C10_HandlerEndIsolated ==
    /\ [][HandlerEndStep =>
            /\ UNCHANGED <<mainVars, queue, nsent, kbd, sock, web>>
            /\ Len(connection_pool') = Len(connection_pool)
            /\ connection_pool[last'.id] = "running"
            /\ connection_pool'[last'.id] \in {"finished", "panicked"}
            /\ \A j \in 1..Len(connection_pool) :
                 j # last'.id => connection_pool'[j] = connection_pool[j]
         ]_vars
    /\ []((ProcessAlive /\ last.who = "handler" /\ last.out \in {"closed", "read_failed"}) =>
            /\ \A i \in 1..Len(connection_pool) :
                 connection_pool[i] = "running" => ENABLED HandlerReadLine(i)
            /\ (sock = "listening" /\ Len(connection_pool) < MaxConns) => ENABLED Accept
            /\ (InLoop /\ (pcMain # "poll" \/ ticks < MaxInputTicks))
                  => ENABLED ((Poll /\ ticks' <= MaxInputTicks) \/ Advance \/ WriteFrame))

\* the first handler has ended with its event still queued, and the second
\* connection, accepted after that, is being served
C10_Witness ==
    /\ Len(connection_pool) = 2
    /\ connection_pool[1] \in {"finished", "panicked"}
    /\ connection_pool[2] = "running"
    /\ queue # <<>>
    /\ last.who = "handler" /\ last.id = 2 /\ last.out = "ignored"

-----------------------------------------------------------------------------
(* Properties of the channel, checked under SpecInput *)

\* the step is an input source sending the event of a recognized input
SendStep == InputStep /\ ExpectedEvent(last') # "none"

\* C11: a send on the channel never fails: whenever an input source sends, the
\* receiving end of the channel exists and the send succeeds, so no source
\* reaches its "failed to send" path, also when the render loop has ended on a
\* write error.
C11_SendNeverFails ==
    [][SendStep => (RxAlive /\ last'.out # "send_failed")]_vars

\* the step of a source has ended in a send, successful or failed
SendDone == last'.out \in {"sent", "send_failed"} \/ (last'.who = "web" /\ last'.status = 200
                                                       /\ last'.inp[1] = "POST")

\* C12: a send is always enabled and completes without waiting: whatever the
\* length of the queue and wherever the render loop stands, inside a frame
\* write included, every running source can take a step that sends, and a send
\* made while the receiving end exists leaves its event at the back of the queue.
C12_SendNeverBlocks ==
    /\ []((ProcessAlive /\ (nsent < MaxSends \/ ~RxAlive)) =>
            /\ kbd = "running" => ENABLED (KeyboardRead /\ SendDone)
            /\ \A i \in 1..Len(connection_pool) :
                 connection_pool[i] = "running" => ENABLED (HandlerReadLine(i) /\ SendDone)
            /\ web = "serving" => ENABLED (WebRequest /\ SendDone))
    /\ [][(SendStep /\ RxAlive) => queue' = Append(queue, ExpectedEvent(last'))]_vars

\* the render loop is in the middle of the frame writes of an iteration and a
\* remote control has just sent a second event behind one that is still queued
C12_Witness ==
    /\ pcMain = "write" /\ nwrites = 3
    /\ Len(queue) = 2
    /\ last.who = "handler" /\ last.out = "sent"

-----------------------------------------------------------------------------
(* Properties of Coordinates::add, checked under SpecAdd *)

PositiveBounds(p) == p.bounds[1] > 0 /\ p.bounds[2] > 0

\* C13: addition stays in range: for operands a, b of any uint16 values with
\* positive bounds of a, a + b evaluates to x = (a.x + b.x) mod width and
\* y = (a.y + b.y) mod height, so 0 <= x < width and 0 <= y < height, with the
\* bounds of a; the 16-bit sum a.x + b.x + width does not change the result.
C13_AddInRange ==
    (sums.ab.done /\ PositiveBounds(operands.a)) =>
        /\ sums.ab.ok
        /\ sums.ab.x = (operands.a.x + operands.b.x) % operands.a.bounds[1]
        /\ sums.ab.y = (operands.a.y + operands.b.y) % operands.a.bounds[2]
        /\ InCanvas(sums.ab.x, sums.ab.y, operands.a.bounds)
        /\ sums.ab.bounds = operands.a.bounds

\* C14: addition is associative under fixed bounds: for operands a, b, c with
\* the same positive bounds, (a + b) + c and a + (b + c) both evaluate, to the
\* same Coordinates.
C14_AddAssociative ==
    (/\ sums.ab_c.done /\ sums.a_bc.done
     /\ operands.a.bounds = operands.b.bounds /\ operands.b.bounds = operands.c.bounds
     /\ PositiveBounds(operands.a)) =>
        /\ sums.ab_c.ok /\ sums.a_bc.ok
        /\ sums.ab_c = sums.a_bc

-----------------------------------------------------------------------------
(* Properties of the frame writes, checked under SpecDraw *)

\* the step taken last is a pass of the write loop
Wrote == last.who = "main" /\ last.out \in {"write_ok", "write_err", "write_panic"}

\* the step taken last is a call of write_frame_to_stream that has returned Ok
WroteFrame == last.who = "main" /\ last.out = "write_ok"

\* C15: for every frame write the frame index is floor(t / 200) mod N, for t
\* the milliseconds elapsed as sampled at that write and N the length of the
\* frame sequence of the facing; it is a valid index, 0 <= index < N, and a
\* function of t alone, whatever the number of frames written before.
C15_FrameIndexByClock ==
    Wrote =>
        /\ Cardinality(DOMAIN current_frames(direction)) = NumFrames
        /\ frame_idx = (elapsed_time \div 200) % NumFrames
        /\ frame_idx \in DOMAIN current_frames(direction)
        /\ 0 <= frame_idx /\ frame_idx < NumFrames

\* the second write of an iteration, 350 ms after the start, has used frame 1
C15_Witness ==
    /\ WroteFrame
    /\ nwrites = 2
    /\ elapsed_time = 350
    /\ frame_idx = 1

\* a decimal numeral: digits only, no leading zero but for "0" itself
IsDecimal(tok) ==
    /\ tok # <<>>
    /\ \A n \in 1..Len(tok) : tok[n] \in DigitChars
    /\ (Len(tok) = 1 \/ tok[1] # "0")

LowerHexDigits == DigitChars \cup {"a", "b", "c", "d", "e", "f"}

HexDigitValue(c) ==
    IF c \in DigitChars THEN DigitValue(c)
    ELSE CASE c = "a" -> 10 [] c = "b" -> 11 [] c = "c" -> 12
           [] c = "d" -> 13 [] c = "e" -> 14 [] c = "f" -> 15

\* the number a sequence of lowercase hex digits denotes
RECURSIVE HexValue(_)
HexValue(tok) ==
    IF tok = <<>> THEN 0
    ELSE HexValue(SubSeq(tok, 1, Len(tok) - 1)) * 16 + HexDigitValue(tok[Len(tok)])

\* C16: a frame write emits one draw command per pixel of the W x H frame,
\* W * H in all, in row-major order; the command of pixel (i, j) is
\* "PX x y rrggbb\n" with (x, y) = add((i, j), position) in decimal and the
\* pixel's r, g, b as six lowercase hex digits; a white pixel drawn at (3, 4)
\* is exactly "PX 3 4 ffffff\n".
C16_FrameOnWire ==
    WroteFrame =>
        /\ Len(wire) = SpriteSize * SpriteSize
        /\ \A i \in 0..(SpriteSize - 1), j \in 0..(SpriteSize - 1) :
             \E line \in {wire[j * SpriteSize + i + 1]} :
             \E tok \in {SplitWhitespace(line)} :
             \E at \in {CoordinatesAdd(Coordinates(i, j, canvas_size), position,
                                       overflow_checks)} :
             \E px \in {current_frames(direction)[frame_idx][<<i, j>>]} :
                /\ Len(tok) = 4
                /\ line = <<"P", "X", " ">> \o tok[2] \o <<" ">> \o tok[3] \o <<" ">>
                              \o tok[4] \o <<"\n">>
                /\ IsDecimal(tok[2]) /\ ParseU16(tok[2]).val = at.x
                /\ IsDecimal(tok[3]) /\ ParseU16(tok[3]).val = at.y
                /\ Len(tok[4]) = 6
                /\ \A n \in 1..6 : tok[4][n] \in LowerHexDigits
                /\ HexValue(tok[4]) = (px[1] * 256 + px[2]) * 256 + px[3]
                /\ (at.x = 3 /\ at.y = 4 /\ <<px[1], px[2], px[3]>> = <<255, 255, 255>>)
                     => line = <<"P", "X", " ", "3", " ", "4", " ",
                                 "f", "f", "f", "f", "f", "f", "\n">>

\* the white first pixel of a frame has been drawn at (3, 4): "PX 3 4 ffffff\n"
C16_Witness ==
    /\ WroteFrame
    /\ position.x = 3 /\ position.y = 4
    /\ Len(wire) = SpriteSize * SpriteSize
    /\ wire[1] = <<"P", "X", " ", "3", " ", "4", " ", "f", "f", "f", "f", "f", "f", "\n">>

\* C20: every draw command written carries coordinates inside the canvas,
\* 0 <= x < width and 0 <= y < height, equal to (sprite pixel + position) mod
\* canvas size computed in the integers, for every position the loop reaches.
C20_DrawnInsideCanvas ==
    WroteFrame =>
        \A i \in 0..(SpriteSize - 1), j \in 0..(SpriteSize - 1) :
            \E tok \in {SplitWhitespace(wire[j * SpriteSize + i + 1])} :
                /\ InCanvas(ParseU16(tok[2]).val, ParseU16(tok[3]).val, canvas_size)
                /\ ParseU16(tok[2]).val = (i + position.x) % canvas_size[1]
                /\ ParseU16(tok[3]).val = (j + position.y) % canvas_size[2]

-----------------------------------------------------------------------------
(* The shape of an iteration of the render loop, checked under SpecLoop *)

\* the step is a pass of the write loop of main
WriteStep ==
    pcMain = "write" /\ last'.who = "main"
        /\ last'.out \in {"write_ok", "write_err", "write_panic"}

\* C17: an iteration of the render loop is one poll, then one position
\* advance, then ten frame writes, and only then the next poll; facing changes
\* at a poll only and position at the advance only, so the ten writes of an
\* iteration use one position and the frame sequence of one facing.
C17_IterationShape ==
    [][/\ (pcMain' = "advance" /\ pcMain # "advance") => PollStep
       /\ PollStep => (nwrites = 0 /\ position' = position)
       /\ (pcMain' = "write" /\ pcMain # "write")
            => (AdvanceStep /\ nwrites' = 0 /\ direction' = direction)
       /\ (InLoop /\ pcMain' = "poll" /\ pcMain # "poll")
            => (WriteStep /\ last'.out = "write_ok" /\ nwrites = 9)
       /\ (WriteStep /\ pcMain' = "write")
            => (last'.out = "write_ok" /\ nwrites' = nwrites + 1 /\ nwrites' < 10)
       /\ WriteStep
            => /\ position' = position /\ direction' = direction
               /\ frame_idx' \in DOMAIN current_frames(direction)
       /\ (direction' # direction) => PollStep
       /\ (InLoop /\ position' # position) => AdvanceStep
      ]_vars

\* after the ten writes of the first iteration the second poll has taken an
\* event and the loop stands before its second advance
C17_Witness ==
    /\ ticks = 2
    /\ pcMain = "advance"
    /\ last.who = "main" /\ last.out = "recv"
    /\ nwrites = 0

\* C18: the render loop never observes a closed channel: whenever the loop
\* runs, at least one sending handle exists, also after every input thread
\* has ended, so a poll yields an event or "empty" and never "disconnected".
C18_ChannelNeverClosed ==
    /\ [](InLoop => SenderHandles >= 1)
    /\ [][PollStep => last'.out \in {"recv", "empty"}]_vars
    /\ [](last.out # "disconnected")

\* the keyboard thread has ended on a read error, neither listener could
\* bind, and the second poll has found the channel empty
C18_Witness ==
    /\ kbd = "panicked" /\ sock = "unavailable" /\ web = "unavailable"
    /\ SenderHandlesOfThreads = 0
    /\ queue = <<>>
    /\ last.who = "main" /\ last.out = "empty"
    /\ pcMain = "advance" /\ ticks = 2

-----------------------------------------------------------------------------
(* Progress of the channel, checked under SpecLive *)

\* the events received so far
Received == nsent - Len(queue)

\* C19: while the render loop keeps completing iterations, every event
\* enqueued is dequeued and latched as facing, an event with k events ahead
\* of it at the (k+1)-th following poll: every poll of a non-empty queue
\* latches the oldest event and moves every other one place forward, no
\* other step moves a queued event, whatever is enqueued behind it, and every
\* poll is followed by the next (unless a panic of the loop's arithmetic ends
\* the loop); so Left, queued second before the first poll, is latched at the
\* second poll.
C19_EventsLatched ==
    /\ [][/\ (PollStep /\ queue # <<>>)
               => /\ direction' = queue[1]
                  /\ last'.out = "recv"
                  /\ Len(queue') = Len(queue) - 1
                  /\ \A i \in 2..Len(queue) : queue'[i - 1] = queue[i]
          /\ ~PollStep
               => /\ Len(queue') >= Len(queue)
                  /\ \A i \in 1..Len(queue) : queue'[i] = queue[i]
         ]_vars
    /\ (InLoop /\ ticks < MaxTicks) ~> (ticks = MaxTicks \/ ~InLoop)
    /\ (InLoop /\ ticks = 0 /\ Len(queue) = 2 /\ queue[2] = "Left")
          ~> ((ticks = 2 /\ last.who = "main" /\ last.out = "recv" /\ direction = "Left"
                 /\ Received = 2)
              \/ ~InLoop)

\* two events were queued before the first poll and the second poll has
\* latched the second of them, Left
C19_Witness ==
    /\ ticks = 2 /\ last.who = "main" /\ last.out = "recv" /\ direction = "Left"
    /\ nsent = 2 /\ queue = <<>>
    /\ position.x # 0
    /\ InLoop

====
